---- MODULE Spec2Model ----
(***************************************************************************)
(* A model of research/ml/svm.py (kernels, SVM construction, fit, predict, *)
(* the two dual loss functions) and of                                     *)
(* research/ml/neural_networks/optimizer.py (MomentumOptimizer and         *)
(* AdaGradOptimizer.layer_update).                                         *)
(*                                                                         *)
(* Numbers.  The code computes in float64; the model computes exactly, in  *)
(* fixed point.  Alphas are integers in units of 1/Scale (0.001), kernel   *)
(* values are integers in units of 1/Scale, so a term alpha*y*K, the       *)
(* offset and the discriminant are integers in units of 1/Unit (1e-6).     *)
(* exp, the logistic function and tanh are tabulated, rounded to 1/Scale.  *)
(* Rounding error of float64 sums and NaN/Inf are outside the model.       *)
(***************************************************************************)
EXTENDS Integers, Sequences, FiniteSets, TLC

\* ------------------------------------------------------------------ units
\* 1/Scale is the unit of an alpha and of a kernel value: 0.001.
Scale == 1000
\* 1/Unit is the unit of alpha*y*K, of offset_ and of g(x).
Unit == Scale * Scale
\* np.where(self.opt_result_.x > 0.001): 0.001 in units of 1/Scale.
SvThreshold == 1
\* (g > .5): 0.5 in units of 1/Unit.
PredictThreshold == Unit \div 2

\* ----------------------------------------------------------------- bounds
\* predict is called with 0..MaxRows rows.
MaxRows == 1
\* Feature vectors the training and prediction matrices are built from.
Points == {<<0, 1>>, <<1, 1>>}
\* Training sets have 0 (rejected by check_X_y), 1 or 2 examples.
TrainSizes == {0, 1, 2}
\* Values an optimized alpha may take, in units of 1/Scale: exactly the
\* threshold 0.001, just above it 0.002, and 0.5.
AlphaVals == {1, 2, 500}
\* radius keyword values, in halves (0 -> 0, 2 -> 1.0); the default .5 is 1.
RadiusArgs == {0, 2}
\* degree keyword values; 2 is also the default.
DegreeArgs == {2}

\* ------------------------------------------------------------ arithmetic
Abs(v) == IF v < 0 THEN -v ELSE v

RECURSIVE SumSeq(_)
SumSeq(s) == IF s = <<>> THEN 0 ELSE Head(s) + SumSeq(Tail(s))

MinOf(a, b) == IF a < b THEN a ELSE b

\* xi.dot(xj)
Dot(xi, xj) == SumSeq([k \in 1..Len(xi) |-> xi[k] * xj[k]])

\* np.linalg.norm(xi-xj)**2
NormSq(xi, xj) == SumSeq([k \in 1..Len(xi) |-> (xi[k] - xj[k]) * (xi[k] - xj[k])])

\* np.exp(-t) for an integer t >= 0, rounded to 1/Scale.
ExpNeg(t) ==
    CASE t = 0 -> 1000 [] t = 1 -> 368 [] t = 2 -> 135 [] t = 3 -> 50
      [] t = 4 -> 18 [] t = 5 -> 7 [] t = 6 -> 2 [] t = 7 -> 1
      [] OTHER -> 0

\* 1 / (1 + np.exp(-d)) for an integer d, rounded to 1/Scale.
Logistic(d) ==
    LET pos(e) == CASE e = 0 -> 500 [] e = 1 -> 731 [] e = 2 -> 881
                    [] e = 3 -> 953 [] e = 4 -> 982 [] e = 5 -> 993
                    [] e = 6 -> 998 [] e = 7 -> 999 [] OTHER -> 1000
    IN IF d >= 0 THEN pos(d) ELSE Scale - pos(-d)

\* np.tanh(d) for an integer d, rounded to 1/Scale.
TanH(d) ==
    LET pos(e) == CASE e = 0 -> 0 [] e = 1 -> 762 [] e = 2 -> 964
                    [] e = 3 -> 995 [] e = 4 -> 999 [] OTHER -> 1000
    IN IF d >= 0 THEN pos(d) ELSE -pos(-d)

RECURSIVE Power(_, _)
Power(b, e) == IF e = 0 THEN 1 ELSE b * Power(b, e - 1)

\* ---------------------------------------------------------------- kernels
\* KERNEL_MAP's keys.
KERNEL_MAP == {"gaussian", "linear", "polynomial", "sigmoid", "tanh"}

\* The kernel attribute of an SVM: a Kernel object (name, radius in halves,
\* degree), or a callable the caller passed (name "callable": it has no
\* .name attribute).
NoKernel == [name |-> "none", radius |-> 0, degree |-> 0]

\* Kernel.transform(xi, xj) on two vectors, in units of 1/Scale.
Transform(k, xi, xj) ==
    CASE k.name = "linear" -> Scale * Dot(xi, xj)
      [] k.name = "gaussian" ->
            ExpNeg((4 * NormSq(xi, xj)) \div (k.radius * k.radius))
      [] k.name = "polynomial" -> Scale * Power(1 + Dot(xi, xj), k.degree)
      [] k.name = "sigmoid" -> Logistic(Dot(xi, xj))
      [] k.name = "tanh" -> TanH(Dot(xi, xj))

\* GaussianKernel.__init__(radius=.5), radius in halves.
GaussianKernel(radius) ==
    IF radius <= 0
    THEN [err |-> "ValueError: radius must be greater than zero.", kernel |-> NoKernel]
    ELSE [err |-> "", kernel |-> [name |-> "gaussian", radius |-> radius, degree |-> 0]]

\* LinearKernel.__init__()
LinearKernel == [err |-> "", kernel |-> [name |-> "linear", radius |-> 0, degree |-> 0]]

\* PolynomialKernel.__init__(degree=2)
PolynomialKernel(degree) ==
    [err |-> "", kernel |-> [name |-> "polynomial", radius |-> 0, degree |-> degree]]

\* SigmoidKernel.__init__(radius=1): the radius is not kept.
SigmoidKernel(radius) ==
    [err |-> "", kernel |-> [name |-> "sigmoid", radius |-> 0, degree |-> 0]]

\* TanHKernel.__init__(radius=1): the radius is not kept.
TanHKernel(radius) ==
    [err |-> "", kernel |-> [name |-> "tanh", radius |-> 0, degree |-> 0]]

\* Keyword arguments are a set of <<name, value>> pairs.
KwNames(kw) == {p[1] : p \in kw}
KwGet(kw, n, default) ==
    IF n \in KwNames(kw) THEN (CHOOSE p \in kw : p[1] = n)[2] ELSE default

\* cls(**kernel_args): an unexpected keyword, or cls being None, is a
\* TypeError raised by the call itself.
CallKernelClass(cls, kw) ==
    CASE cls = "None" -> [err |-> "TypeError", kernel |-> NoKernel]
      [] cls = "gaussian" ->
            IF KwNames(kw) \subseteq {"radius"}
            THEN GaussianKernel(KwGet(kw, "radius", 1))
            ELSE [err |-> "TypeError", kernel |-> NoKernel]
      [] cls = "linear" ->
            IF kw = {} THEN LinearKernel
            ELSE [err |-> "TypeError", kernel |-> NoKernel]
      [] cls = "polynomial" ->
            IF KwNames(kw) \subseteq {"degree"}
            THEN PolynomialKernel(KwGet(kw, "degree", 2))
            ELSE [err |-> "TypeError", kernel |-> NoKernel]
      [] cls = "sigmoid" ->
            IF KwNames(kw) \subseteq {"radius"}
            THEN SigmoidKernel(KwGet(kw, "radius", 2))
            ELSE [err |-> "TypeError", kernel |-> NoKernel]
      [] cls = "tanh" ->
            IF KwNames(kw) \subseteq {"radius"}
            THEN TanHKernel(KwGet(kw, "radius", 2))
            ELSE [err |-> "TypeError", kernel |-> NoKernel]

\* KERNEL_MAP.get(kernel): the class, or None.
KernelMapGet(name) == IF name \in KERNEL_MAP THEN name ELSE "None"

InvalidKernelError == "ValueError: Invalid kernel. Must be in KERNEL_MAP.keys()"

\* SVM.__init__(kernel, **kernel_args): the error raised ("" when none) and
\* the kernel the instance gets.
SVM__init__(karg, kw) ==
    LET step1 ==
            IF karg.type = "str"
            THEN CallKernelClass(KernelMapGet(karg.val), kw)
            ELSE IF karg.type # "function"
                 THEN [err |-> "ValueError: Kernel must be a string or callable.",
                       kernel |-> NoKernel]
                 ELSE [err |-> "",
                       kernel |-> [name |-> "callable", radius |-> 0, degree |-> 0]]
    IN IF step1.err # "" THEN step1
       ELSE IF step1.kernel = NoKernel
            THEN [err |-> InvalidKernelError, kernel |-> NoKernel]
            ELSE step1

\* --------------------------------------------------------------- SVM state
VARIABLES
    inst,         \* TRUE when an SVM instance exists
    kernel,       \* self.kernel
    attrs,        \* the names of the attributes fit has set (hasattr)
    opt_x,        \* self.opt_result_.x
    sup_X_,       \* self.sup_X_
    sup_y_,       \* self.sup_y_
    sup_alphas_,  \* self.sup_alphas_
    offset_,      \* self.offset_
    op,           \* the last call: "none", "init", "fit", "predict"
    err,          \* what the last call raised, "" when it returned
    ret,          \* what the last predict returned (yhat)
    arg,          \* the arguments of the last call
    everFitted    \* history: a fit call on this instance has returned

svmVars == <<inst, kernel, attrs, opt_x, sup_X_, sup_y_, sup_alphas_,
             offset_, op, err, ret, arg, everFitted>>

NoArg == [kernel |-> [type |-> "none", val |-> ""], kw |-> {}, X |-> <<>>, y |-> <<>>]

FittedAttrs == {"opt_result_", "sup_X_", "sup_y_", "sup_alphas_", "offset_"}

\* The state before any instance exists.
SVMInit ==
    /\ inst = FALSE
    /\ kernel = NoKernel
    /\ attrs = {}
    /\ opt_x = <<>>
    /\ sup_X_ = <<>>
    /\ sup_y_ = <<>>
    /\ sup_alphas_ = <<>>
    /\ offset_ = 0
    /\ op = "none"
    /\ err = ""
    /\ ret = <<>>
    /\ arg = NoArg
    /\ everFitted = FALSE

KernelArgs ==
    [type : {"str"}, val : KERNEL_MAP \cup {"rbf"}]
        \cup {[type |-> "int", val |-> "5"], [type |-> "function", val |-> "f"]}

KwArgs == {{}} \cup {{<<"radius", r>>} : r \in RadiusArgs}
               \cup {{<<"degree", d>>} : d \in DegreeArgs}

\* svm = SVM(kernel, **kernel_args): the instance under observation is the
\* one this call is to produce.  When __init__ raises there is none.
New(karg, kw) ==
    LET r == SVM__init__(karg, kw) IN
    /\ op' = "init"
    /\ err' = r.err
    /\ ret' = <<>>
    /\ arg' = [NoArg EXCEPT !.kernel = karg, !.kw = kw]
    /\ inst' = (r.err = "")
    /\ kernel' = r.kernel
    /\ attrs' = {}
    /\ opt_x' = <<>>
    /\ sup_X_' = <<>>
    /\ sup_y_' = <<>>
    /\ sup_alphas_' = <<>>
    /\ offset_' = 0
    /\ everFitted' = FALSE

\* ------------------------------------------------------------------- fit
\* y[y == 0] = -1
RemapLabels(y) == [i \in 1..Len(y) |-> IF y[i] = 0 THEN -1 ELSE y[i]]

\* Mutant of IsSupport: the threshold itself counts as a support vector.
IsSupportAtThreshold(a) == a >= SvThreshold

\* self.opt_result_.x > 0.001, for one entry.
IsSupport(a) == a > SvThreshold

\* np.where(x > 0.001): the indices of the entries above the threshold, in
\* increasing order.
RECURSIVE WhereFrom(_, _)
WhereFrom(x, i) ==
    IF i > Len(x) THEN <<>>
    ELSE IF IsSupport(x[i]) THEN <<i>> \o WhereFrom(x, i + 1)
         ELSE WhereFrom(x, i + 1)

Where(x) == WhereFrom(x, 1)

\* a[idx]: numpy indexing of an array by an index array.
Take(a, idx) == [k \in 1..Len(idx) |-> a[idx[k]]]

\* for xi, yi, ai in zip(sX, sy, sa): _sum += ai * yi * K(xi, x)
RECURSIVE KernelSumFrom(_, _, _, _, _, _)
KernelSumFrom(k, sX, sy, sa, x, i) ==
    IF i > MinOf(Len(sX), MinOf(Len(sy), Len(sa))) THEN 0
    ELSE sa[i] * sy[i] * Transform(k, sX[i], x) + KernelSumFrom(k, sX, sy, sa, x, i + 1)

KernelSum(k, sX, sy, sa, x) == KernelSumFrom(k, sX, sy, sa, x, 1)

\* Mutant of ComputeOffset: the offset is taken from the last support vector.
ComputeOffsetFromLast(k, sX, sy, sa) ==
    sy[Len(sy)] * Unit - KernelSum(k, sX, sy, sa, sX[Len(sX)])

\* SVM._compute_offset, called with at least one support vector:
\* yk - _sum, in units of 1/Unit.
ComputeOffset(k, sX, sy, sa) == sy[1] * Unit - KernelSum(k, sX, sy, sa, sX[1])

\* SVM._compute_offset raises IndexError at self.sup_X_[0] when there is no
\* support vector.
ComputeOffsetRaises(sX) == Len(sX) = 0

\* Mutant of CheckIsFitted: one existing attribute is enough.
CheckIsFittedAny(have, attributes) == attributes \cap have # {}

\* check_is_fitted(self, attributes): every attribute must exist.
CheckIsFitted(have, attributes) == attributes \subseteq have

Matrices(n) == [1..n -> Points]
Labels(n) == [1..n -> {0, 1}]
VectorizedArgs == {"None", "True", "False"}

Raise(e) ==
    /\ err' = e
    /\ ret' = <<>>

\* svm.fit(X, y, vectorized); alphas is what optimize.minimize returns in
\* opt_result_.x.  arg keeps the training set of a fit that returned; the
\* value of classes_ is read nowhere and only its existence is kept.
Fit(X, y, vectorized, alphas) ==
    /\ inst
    /\ op' = "fit"
    /\ UNCHANGED <<inst, kernel>>
    /\ IF kernel.name = "callable"
       THEN \* self.kernel.name on a plain callable
            /\ Raise("AttributeError")
            /\ arg' = NoArg
            /\ UNCHANGED <<attrs, opt_x, sup_X_, sup_y_, sup_alphas_,
                           offset_, everFitted>>
       ELSE IF kernel.name # "linear" /\ vectorized = "True"
       THEN /\ Raise("ValueError: Vectorized loss only works with linear kernel right now.")
            /\ arg' = NoArg
            /\ UNCHANGED <<attrs, opt_x, sup_X_, sup_y_, sup_alphas_,
                           offset_, everFitted>>
       ELSE IF Len(X) = 0
       THEN \* check_X_y requires at least one sample
            /\ Raise("ValueError: check_X_y")
            /\ arg' = NoArg
            /\ UNCHANGED <<attrs, opt_x, sup_X_, sup_y_, sup_alphas_,
                           offset_, everFitted>>
       ELSE LET y1 == RemapLabels(y)
                sv_idx == Where(alphas)
                sX == Take(X, sv_idx)
                sy == Take(y1, sv_idx)
                sa == Take(alphas, sv_idx)
            IN /\ opt_x' = alphas
               /\ sup_X_' = sX
               /\ sup_y_' = sy
               /\ sup_alphas_' = sa
               /\ IF ComputeOffsetRaises(sX)
                  THEN /\ Raise("IndexError")
                       /\ arg' = NoArg
                       /\ attrs' = attrs \cup {"classes_", "opt_result_", "sup_X_",
                                               "sup_y_", "sup_alphas_"}
                       /\ UNCHANGED <<offset_, everFitted>>
                  ELSE /\ offset_' = ComputeOffset(kernel, sX, sy, sa)
                       /\ attrs' = attrs \cup {"classes_"} \cup FittedAttrs
                       /\ err' = ""
                       /\ ret' = <<>>
                       /\ arg' = [NoArg EXCEPT !.X = X, !.y = y]
                       /\ everFitted' = TRUE

\* --------------------------------------------------------------- predict
\* SVM._compute_discriminant(X): g[i] = _sum + self.offset_, in units of
\* 1/Unit.
ComputeDiscriminant(k, sX, sy, sa, offset, X) ==
    [i \in 1..Len(X) |-> KernelSum(k, sX, sy, sa, X[i]) + offset]

\* Mutant of Threshold: a discriminant of exactly .5 predicts 1.
ThresholdInclusive(g) == IF g >= PredictThreshold THEN 1 ELSE 0

\* (g > .5).astype(int), for one entry.
Threshold(g) == IF g > PredictThreshold THEN 1 ELSE 0

\* svm.predict(X)
Predict(X) ==
    /\ inst
    /\ op' = "predict"
    /\ UNCHANGED <<inst, kernel, attrs, opt_x, sup_X_, sup_y_, sup_alphas_,
                   offset_, everFitted>>
    /\ arg' = [NoArg EXCEPT !.X = X]
    /\ IF ~CheckIsFitted(attrs, FittedAttrs)
       THEN Raise("NotFittedError")
       ELSE IF Len(X) = 0
       THEN \* check_array requires at least one sample
            Raise("ValueError: check_array")
       ELSE LET g == ComputeDiscriminant(kernel, sup_X_, sup_y_, sup_alphas_, offset_, X)
            IN /\ err' = ""
               /\ ret' = [i \in 1..Len(g) |-> Threshold(g[i])]

\* ------------------------------------------------------------------ loss
\* _loss and _vectorized_loss return floats; the model returns them in units
\* of 1/LossUnit: alphas are in 1/Scale and a kernel value is in 1/Scale, so
\* right_sum is in 1/Scale^3 and .5*right_sum in 1/(2*Scale^3).
LossUnit == 2 * Scale * Scale * Scale

\* SVM._loss(alphas, _X, y): the doubly nested pairwise sum.
RECURSIVE LossInner(_, _, _, _, _, _)
LossInner(k, alphas, X, y, i, j) ==
    IF j > Len(X) THEN 0
    ELSE alphas[i] * alphas[j] * y[i] * y[j] * Transform(k, X[i], X[j])
         + LossInner(k, alphas, X, y, i, j + 1)

RECURSIVE LossOuter(_, _, _, _, _)
LossOuter(k, alphas, X, y, i) ==
    IF i > Len(X) THEN 0
    ELSE LossInner(k, alphas, X, y, i, 1) + LossOuter(k, alphas, X, y, i + 1)

Loss(k, alphas, X, y) ==
    LET left_sum == SumSeq(alphas)
        right_sum == LossOuter(k, alphas, X, y, 1)
        \* total_loss = left_sum - .5*right_sum, in units of 1/LossUnit
        total_loss == 2 * Scale * Scale * left_sum - right_sum
    IN -1 * total_loss

\* A.dot(B) for an n x m matrix A and an m x p matrix B (sequences of rows).
MatMul(A, B) ==
    [i \in 1..Len(A) |->
        [j \in 1..Len(B[1]) |-> SumSeq([c \in 1..Len(B) |-> A[i][c] * B[c][j]])]]

\* A.T for a matrix with at least one row.
Transpose(A) == [c \in 1..Len(A[1]) |-> [i \in 1..Len(A) |-> A[i][c]]]

\* Kernel.transform(A, B) on two matrices, as numpy evaluates the same
\* expression: the dot product becomes the matrix product and the rest is
\* elementwise.  (GaussianKernel's xi-xj does not broadcast to a matrix of
\* pairwise values and is not called this way.)
TransformMatrix(k, A, B) ==
    LET D == MatMul(A, B) IN
    [i \in 1..Len(D) |-> [j \in 1..Len(D[i]) |->
        CASE k.name = "linear" -> Scale * D[i][j]
          [] k.name = "polynomial" -> Scale * Power(1 + D[i][j], k.degree)
          [] k.name = "sigmoid" -> Logistic(D[i][j])
          [] k.name = "tanh" -> TanH(D[i][j])]]

\* Mutant of ScaleRows: the labels are left out of H.
ScaleRowsWithoutLabels(y, X) == X

\* y_ * X with y_ = y.reshape(-1, 1): row i of X scaled by y[i].
ScaleRows(y, X) == [i \in 1..Len(X) |-> [c \in 1..Len(X[i]) |-> y[i] * X[i][c]]]

\* v.dot(H) for a vector v and a matrix H.
VecMat(v, H) == [j \in 1..Len(H[1]) |-> SumSeq([i \in 1..Len(v) |-> v[i] * H[i][j]])]

\* SVM._vectorized_loss(alphas, _X, y)
VectorizedLoss(k, alphas, X, y) ==
    LET left_sum == SumSeq(alphas)
        X_ == ScaleRows(y, X)
        H == TransformMatrix(k, X_, Transpose(X_))
        right_sum == Dot(VecMat(alphas, H), alphas)
        total_loss == 2 * Scale * Scale * left_sum - right_sum
    IN -1 * total_loss

\* The state of the loss calls: the arguments, and what each of the two
\* implementations returned for them (set = FALSE before the call).
VARIABLES
    lossArgs,     \* [alphas, X, y], the arguments both losses are called with
    lossRet,      \* what self._loss(alphas, X, y) returned
    vlossRet      \* what self._vectorized_loss(alphas, X, y) returned

lossVars == <<lossArgs, lossRet, vlossRet>>

NoLossArgs == [alphas |-> <<>>, X |-> <<>>, y |-> <<>>]
NotCalled == [set |-> FALSE, val |-> 0]

LossIdle ==
    /\ lossArgs = NoLossArgs
    /\ lossRet = NotCalled
    /\ vlossRet = NotCalled

\* loss = self._loss(alphas, X, y)
CallLoss ==
    /\ ~lossRet.set
    /\ lossRet' = [set |-> TRUE,
                   val |-> Loss(kernel, lossArgs.alphas, lossArgs.X, lossArgs.y)]
    /\ UNCHANGED <<lossArgs, vlossRet>>

\* loss = self._vectorized_loss(alphas, X, y)
CallVectorizedLoss ==
    /\ ~vlossRet.set
    /\ vlossRet' = [set |-> TRUE,
                    val |-> VectorizedLoss(kernel, lossArgs.alphas, lossArgs.X, lossArgs.y)]
    /\ UNCHANGED <<lossArgs, lossRet>>

\* ------------------------------------------------------------- optimizers
\* M = [D] + hidden_layer_sizes + [K] for D = 2, hidden_layer_sizes = [1],
\* K = 1.  Layer i (1-based here, 0-based in the code) has a weight array of
\* shape (M[i], M[i+1]), kept flattened, and a bias array of shape (M[i+1]).
LayerSizes == <<2, 1, 1>>
NLayers == Len(LayerSizes) - 1
Layers == 1..NLayers
WSize(i) == LayerSizes[i] * LayerSizes[i + 1]
BSize(i) == LayerSizes[i + 1]

\* np.zeros(n)
Zeros(n) == [e \in 1..n |-> 0]

\* clip_thresh: a finite number, or np.inf.
Inf == [inf |-> TRUE, val |-> 0]
Finite(v) == [inf |-> FALSE, val |-> v]

\* x > t and x < -1*t for a threshold t that may be np.inf.
Above(x, t) == ~t.inf /\ x > t.val
Below(x, t) == ~t.inf /\ x < -1 * t.val

\* dJdW_i[dJdW_i > clip_thresh] = clip_thresh, then
\* dJdW_i[dJdW_i < -1*clip_thresh] = -1*clip_thresh, for one entry.
ClipEntry(x, t) ==
    LET x1 == IF Above(x, t) THEN t.val ELSE x
    IN IF Below(x1, t) THEN -1 * t.val ELSE x1

ClipArray(a, t) == [e \in 1..Len(a) |-> ClipEntry(a[e], t)]

\* a.max() and a.min()
RECURSIVE ArrayMax(_)
ArrayMax(a) ==
    IF Len(a) = 1 THEN a[1]
    ELSE LET m == ArrayMax(Tail(a)) IN IF a[1] > m THEN a[1] ELSE m

RECURSIVE ArrayMin(_)
ArrayMin(a) ==
    IF Len(a) = 1 THEN a[1]
    ELSE LET m == ArrayMin(Tail(a)) IN IF a[1] < m THEN a[1] ELSE m

\* max(a, b, key=abs): the first of the two when the keys tie.
MaxKeyAbs(a, b) == IF Abs(b) > Abs(a) THEN b ELSE a

\* max((a, b))
Max2(a, b) == IF b > a THEN b ELSE a

\* grad_max = max((grad_max, max(dJdW_i.max(), dJdW_i.min(), key=abs)))
UpdateGradMax(grad_max, dJdW) ==
    Max2(grad_max, MaxKeyAbs(ArrayMax(dJdW), ArrayMin(dJdW)))

\* dJdW_i - reg*W_i
Regularize(g, reg, w) == [e \in 1..Len(g) |-> g[e] - reg * w[e]]

\* Mutant of Velocity: the old velocity is kept whatever mu is.
VelocityIgnoringMu(mu, v, lr, g) == [e \in 1..Len(g) |-> v[e] + lr * g[e]]

\* mu*self.vW_[i] + lr*dJdW_i
Velocity(mu, v, lr, g) == [e \in 1..Len(g) |-> mu * v[e] + lr * g[e]]

\* Mutant of Accumulate: the cache is overwritten, not added to.
AccumulateOverwriting(c, g) == [e \in 1..Len(g) |-> g[e] * g[e]]

\* self.cW_[i] + dJdW_i**2
Accumulate(c, g) == [e \in 1..Len(g) |-> c[e] + g[e] * g[e]]

\* Mutant of SetLayer: every layer is given the new array.
SetEveryLayer(arrays, i, new) == [j \in DOMAIN arrays |-> new]

\* self.vW_[i] = new (and the same for vb_, cW_, cb_)
SetLayer(arrays, i, new) == [arrays EXCEPT ![i] = new]

\* epsilon is an integer number of 1/EpsDen.
EpsDen == 10

\* lr*(dJdW_i/np.sqrt(self.cW_[i] + epsilon)), kept exactly: the entry
\* [num, rad] stands for num / sqrt(rad / EpsDen).
AdaGradStep(lr, g, c, epsilon) ==
    [e \in 1..Len(g) |-> [num |-> lr * g[e], rad |-> c[e] * EpsDen + epsilon]]

VARIABLES
    optKind,      \* "momentum" or "adagrad" ("none": no optimizer)
    hyper,        \* self.lr, self.mu, self.reg, self.clip_thresh, self.epsilon
    mlp,          \* the MLP passed to layer_update: [W, b]
    vW_, vb_,     \* MomentumOptimizer's velocities, one array per layer
    cW_, cb_,     \* AdaGradOptimizer's caches, one array per layer
    dJdW, dJdb,   \* the caller's gradient arrays, as the last call left them
    grad_max,     \* the running maximum the caller threads through the calls
    retW, retB,   \* the updates the last call returned
    calls,        \* the number of layer_update calls so far
    call,         \* history: the arguments of the last call
    pre,          \* history: the optimizer and the MLP before the last call
    hist,         \* history: per layer, its last two calls, the latest first
    seenMax       \* history: the largest |weight gradient entry| used so far

optVars == <<optKind, hyper, mlp, vW_, vb_, cW_, cb_, dJdW, dJdb, grad_max,
             retW, retB, calls, call, pre, hist, seenMax>>

NoHyper == [lr |-> 0, mu |-> 0, reg |-> 0, clip_thresh |-> Inf, epsilon |-> 0]
NoCall == [i |-> 0, dJdW |-> <<>>, dJdb |-> <<>>, grad_max |-> 0]
NoPre == [vW_ |-> <<>>, vb_ |-> <<>>, cW_ |-> <<>>, cb_ |-> <<>>,
          hyper |-> NoHyper, mlp |-> <<>>]

OptIdle ==
    /\ optKind = "none"
    /\ hyper = NoHyper
    /\ mlp = <<>>
    /\ vW_ = <<>> /\ vb_ = <<>> /\ cW_ = <<>> /\ cb_ = <<>>
    /\ dJdW = <<>> /\ dJdb = <<>>
    /\ grad_max = 0
    /\ retW = <<>> /\ retB = <<>>
    /\ calls = 0
    /\ call = NoCall
    /\ pre = NoPre
    /\ hist = <<>>
    /\ seenMax = 0

\* --------------------------------------------------- optimizer bounds
\* layer_update is called at most MaxCalls times.
MaxCalls == 2
LrVals == {1, 2}
MuVals == {0, 1}
RegVals == {0, 1}
ClipVals == {Finite(2), Inf}
AdaLrVals == {0, 1, 2}
EpsVals == {0, 1}
\* Every weight and bias of the MLP has the same value, one of these.
MlpVals == {-1, 2}
\* Entries of a weight gradient and of a bias gradient.
GradVals == {-3, 0, 2}
BiasGradVals == {-3, 2}

MlpOf(w) == [W |-> [i \in Layers |-> [e \in 1..WSize(i) |-> w]],
             b |-> [i \in Layers |-> [e \in 1..BSize(i) |-> w]]]

OptFresh ==
    /\ dJdW = <<>> /\ dJdb = <<>>
    /\ grad_max = 0
    /\ retW = <<>> /\ retB = <<>>
    /\ calls = 0
    /\ call = NoCall
    /\ pre = NoPre
    /\ hist = [i \in Layers |-> <<>>]
    /\ seenMax = 0

\* MomentumOptimizer.__init__(D, K, hidden_layer_sizes, lr, mu, reg, clip_thresh)
MomentumInit(lr, mu, reg, clip_thresh) ==
    /\ optKind = "momentum"
    /\ hyper = [lr |-> lr, mu |-> mu, reg |-> reg, clip_thresh |-> clip_thresh,
                epsilon |-> 0]
    /\ vW_ = [i \in Layers |-> Zeros(WSize(i))]
    /\ vb_ = [i \in Layers |-> Zeros(BSize(i))]
    /\ cW_ = <<>> /\ cb_ = <<>>

\* AdaGradOptimizer.__init__(D, K, hidden_layer_sizes, lr, epsilon)
AdaGradInit(lr, epsilon) ==
    /\ optKind = "adagrad"
    /\ hyper = [NoHyper EXCEPT !.lr = lr, !.epsilon = epsilon]
    /\ cW_ = [i \in Layers |-> Zeros(WSize(i))]
    /\ cb_ = [i \in Layers |-> Zeros(BSize(i))]
    /\ vW_ = <<>> /\ vb_ = <<>>

OptInit ==
    /\ \E w \in MlpVals : mlp = MlpOf(w)
    /\ OptFresh
    /\ \/ \E lr \in LrVals, mu \in MuVals, reg \in RegVals, t \in ClipVals :
             MomentumInit(lr, mu, reg, t)
       \/ \E lr \in AdaLrVals, epsilon \in EpsVals : AdaGradInit(lr, epsilon)

\* The largest absolute value of an entry of a.
MaxAbs(a) == CHOOSE m \in {Abs(a[e]) : e \in 1..Len(a)} :
                \A e \in 1..Len(a) : Abs(a[e]) <= m

\* What every call records about itself.
Record(i, gW, gB, uW, uB, usedW) ==
    /\ calls' = calls + 1
    /\ call' = [i |-> i, dJdW |-> gW, dJdb |-> gB, grad_max |-> grad_max]
    /\ pre' = [vW_ |-> vW_, vb_ |-> vb_, cW_ |-> cW_, cb_ |-> cb_,
               hyper |-> hyper, mlp |-> mlp]
    /\ hist' = [hist EXCEPT ![i] =
                  SubSeq(<<[dJdW |-> gW, dJdb |-> gB, retW |-> uW, retB |-> uB]>> \o @,
                         1, MinOf(2, Len(@) + 1))]
    /\ seenMax' = Max2(seenMax, MaxAbs(usedW))

\* MomentumOptimizer.layer_update(mlp, i, dJdW_i, dJdb_i, grad_max), called
\* with gradient arrays holding gW and gB and with the running maximum the
\* previous call returned.
MomentumLayerUpdate(i, gW, gB) ==
    /\ optKind = "momentum"
    /\ calls < MaxCalls
    /\ LET lr == hyper.lr
           reg == hyper.reg
           mu == hyper.mu
           clip_thresh == hyper.clip_thresh
           W_i == mlp.W[i]
           b_i == mlp.b[i]
           \* the clipping assigns into the caller's arrays
           clippedW == ClipArray(gW, clip_thresh)
           clippedb == ClipArray(gB, clip_thresh)
           \* dJdW_i = dJdW_i - reg*W_i rebinds the local name to a new array
           adjW == Regularize(clippedW, reg, W_i)
           adjb == Regularize(clippedb, reg, b_i)
           newvW == Velocity(mu, vW_[i], lr, adjW)
           newvb == Velocity(mu, vb_[i], lr, adjb)
       IN /\ dJdW' = clippedW
          /\ dJdb' = clippedb
          /\ grad_max' = UpdateGradMax(grad_max, clippedW)
          /\ vW_' = SetLayer(vW_, i, newvW)
          /\ vb_' = SetLayer(vb_, i, newvb)
          /\ retW' = newvW
          /\ retB' = newvb
          /\ Record(i, gW, gB, newvW, newvb, clippedW)
    /\ UNCHANGED <<optKind, hyper, mlp, cW_, cb_>>

\* AdaGradOptimizer.layer_update(mlp, i, dJdW_i, dJdb_i, grad_max)
AdaGradLayerUpdate(i, gW, gB) ==
    /\ optKind = "adagrad"
    /\ calls < MaxCalls
    /\ LET lr == hyper.lr
           epsilon == hyper.epsilon
           newcW == Accumulate(cW_[i], gW)
           newcb == Accumulate(cb_[i], gB)
           w_update == AdaGradStep(lr, gW, newcW, epsilon)
           b_update == AdaGradStep(lr, gB, newcb, epsilon)
       IN /\ dJdW' = gW
          /\ dJdb' = gB
          /\ grad_max' = UpdateGradMax(grad_max, gW)
          /\ cW_' = SetLayer(cW_, i, newcW)
          /\ cb_' = SetLayer(cb_, i, newcb)
          /\ retW' = w_update
          /\ retB' = b_update
          /\ Record(i, gW, gB, w_update, b_update, gW)
    /\ UNCHANGED <<optKind, hyper, mlp, vW_, vb_>>

\* ---------------------------------------------------------- specifications
vars == <<svmVars, lossVars, optVars>>

\* An SVM is constructed, fitted and asked for predictions.
InitSVM == SVMInit /\ LossIdle /\ OptIdle
NextSVM ==
    \/ \E karg \in KernelArgs, kw \in KwArgs :
          New(karg, kw) /\ UNCHANGED <<lossVars, optVars>>
    \/ \E n \in TrainSizes : \E X \in Matrices(n), y \in Labels(n),
          vectorized \in VectorizedArgs, alphas \in [1..n -> AlphaVals] :
             Fit(X, y, vectorized, alphas) /\ UNCHANGED <<lossVars, optVars>>
    \/ \E n \in 0..MaxRows : \E X \in Matrices(n) :
          Predict(X) /\ UNCHANGED <<lossVars, optVars>>
SpecSVM == InitSVM /\ [][NextSVM]_vars

\* The two losses of an SVM with a dot-product kernel are called on one
\* alphas, X, y.
MaxLossN == 2
LossPoints == {<<0, 1>>, <<1, 1>>, <<-1, 2>>}
LossAlphas == {-1, 0, 2}
LossKernels == {LinearKernel.kernel, PolynomialKernel(2).kernel}

InitLoss ==
    /\ inst = TRUE
    /\ kernel \in LossKernels
    /\ attrs = {}
    /\ opt_x = <<>> /\ sup_X_ = <<>> /\ sup_y_ = <<>> /\ sup_alphas_ = <<>>
    /\ offset_ = 0
    /\ op = "init" /\ err = "" /\ ret = <<>> /\ arg = NoArg
    /\ everFitted = FALSE
    /\ \E n \in 1..MaxLossN :
          lossArgs \in [alphas : [1..n -> LossAlphas], X : [1..n -> LossPoints],
                        y : [1..n -> {-1, 1}]]
    /\ lossRet = NotCalled
    /\ vlossRet = NotCalled
    /\ OptIdle

NextLoss ==
    \/ CallLoss /\ UNCHANGED <<svmVars, optVars>>
    \/ CallVectorizedLoss /\ UNCHANGED <<svmVars, optVars>>
SpecLoss == InitLoss /\ [][NextLoss]_vars

\* An optimizer is constructed and layer_update is called on it.
InitOpt == SVMInit /\ LossIdle /\ OptInit
NextOpt ==
    \/ \E i \in Layers : \E gW \in [1..WSize(i) -> GradVals],
                            gB \in [1..BSize(i) -> BiasGradVals] :
          MomentumLayerUpdate(i, gW, gB) /\ UNCHANGED <<svmVars, lossVars>>
    \/ \E i \in Layers : \E gW \in [1..WSize(i) -> GradVals],
                            gB \in [1..BSize(i) -> BiasGradVals] :
          AdaGradLayerUpdate(i, gW, gB) /\ UNCHANGED <<svmVars, lossVars>>
SpecOpt == InitOpt /\ [][NextOpt]_vars

\* ----------------------------------------------------------------- claims
\* The sum of the values of a function with a finite domain.
RECURSIVE SumFun(_)
SumFun(f) ==
    IF DOMAIN f = {} THEN 0
    ELSE LET d == CHOOSE d \in DOMAIN f : TRUE
         IN f[d] + SumFun([e \in DOMAIN f \ {d} |-> f[e]])

PredictReturned == op = "predict" /\ err = ""
FitReturned == op = "fit" /\ err = ""

\* C1: on an instance on which no fit call has ever returned, every predict
\* call raises the "not fitted" error and returns no prediction, whatever X is
\* and whatever calls (failed fits, failed predicts) came before.
C1_UnfittedPredictRaises ==
    (op = "predict" /\ ~everFitted) => (err = "NotFittedError" /\ ret = <<>>)

\* C1's case: predict raised on an instance whose only fit failed after it
\* had stored the support vectors, for a non-empty X.
C1_Witness ==
    /\ op = "predict" /\ ~everFitted /\ err = "NotFittedError"
    /\ "sup_X_" \in attrs
    /\ Len(arg.X) > 0

\* The indices of the training examples whose optimized alpha is above 0.001.
SupportIndices == {i \in 1..Len(opt_x) : opt_x[i] > SvThreshold}

\* C2: after every fit call that returns, whatever alphas the minimizer
\* returned: sup_X_, sup_y_ and sup_alphas_ have the same length; they are
\* exactly the training examples (features, remapped label, alpha) whose
\* optimized alpha is greater than 0.001, in training order; and every entry
\* of sup_alphas_ is greater than 0.001.
C2_SupportVectors ==
    FitReturned =>
        LET S == SupportIndices
            rank(i) == Cardinality({j \in S : j <= i})
        IN /\ Len(opt_x) = Len(arg.X)
           /\ Len(sup_X_) = Cardinality(S)
           /\ Len(sup_y_) = Len(sup_X_)
           /\ Len(sup_alphas_) = Len(sup_X_)
           /\ \A i \in S :
                /\ sup_X_[rank(i)] = arg.X[i]
                /\ sup_y_[rank(i)] = (IF arg.y[i] = 0 THEN -1 ELSE 1)
                /\ sup_alphas_[rank(i)] = opt_x[i]
           /\ \A k \in 1..Len(sup_alphas_) : sup_alphas_[k] > SvThreshold

\* C2's case: a fit of two examples returned, the first alpha is exactly
\* 0.001 and is left out, the second is kept.
C2_Witness ==
    /\ FitReturned
    /\ Len(opt_x) = 2 /\ opt_x[1] = SvThreshold
    /\ Len(sup_X_) = 1 /\ sup_X_[1] = arg.X[2] /\ arg.X[1] # arg.X[2]

\* g(x) = sum_i alpha_i*y_i*K(x_i, x) + offset_ over the stored support
\* vectors, in units of 1/Unit.
Discriminant(x) ==
    SumFun([i \in 1..Len(sup_X_) |->
              sup_alphas_[i] * sup_y_[i] * Transform(kernel, sup_X_[i], x)])
    + offset_

\* C6: a predict call that returns gives one entry per row of X, each 0 or 1,
\* and the entry of row x is 1 exactly when g(x) > 0.5.
C6_PredictThresholdsDiscriminant ==
    PredictReturned =>
        /\ Len(ret) = Len(arg.X)
        /\ \A r \in 1..Len(ret) :
             /\ ret[r] \in {0, 1}
             /\ (ret[r] = 1) <=> (2 * Discriminant(arg.X[r]) > Unit)

\* C6's case: predict returned 0 for a row whose discriminant is exactly 0.5.
C6_Witness ==
    /\ PredictReturned
    /\ \E r \in 1..Len(ret) : 2 * Discriminant(arg.X[r]) = Unit /\ ret[r] = 0

\* The kernel names the SVM documents.
KernelNames == {"gaussian", "linear", "polynomial", "sigmoid", "tanh"}

\* C7: constructing an SVM with a kernel string that is not a key of
\* KERNEL_MAP raises the ValueError 'Invalid kernel. Must be in ...' and
\* produces no instance.
C7_InvalidKernelNameRaisesValueError ==
    (op = "init" /\ arg.kernel.type = "str" /\ arg.kernel.val \notin KernelNames)
        => (err = InvalidKernelError /\ ~inst)

\* C10: whenever predict is accepted, offset_ is the offset computed from the
\* stored sup_X_, sup_y_, sup_alphas_: no failed fit leaves the support
\* vectors of the new fit with the offset of an earlier one.
C10_OffsetBelongsToSupportVectors ==
    PredictReturned =>
        /\ Len(sup_X_) >= 1
        /\ offset_ = ComputeOffset(kernel, sup_X_, sup_y_, sup_alphas_)

BothLossesCalled == lossRet.set /\ vlossRet.set

\* -(sum_i alpha_i - 0.5 * sum_{i,j} alpha_i*alpha_j*y_i*y_j*(x_i . x_j)), in
\* units of 1/LossUnit.
NegatedDualObjective ==
    LET a == lossArgs.alphas
        X == lossArgs.X
        y == lossArgs.y
        n == Len(X)
        pairs == (1..n) \X (1..n)
        quad == SumFun([p \in pairs |->
                    a[p[1]] * a[p[2]] * y[p[1]] * y[p[2]] * Dot(X[p[1]], X[p[2]])])
    \* alpha_i is a[i]/Scale, so the objective times LossUnit = 2*Scale^3 is
    \* 2*Scale^2 * sum(a) - Scale * quad.
    IN -(2 * Scale * Scale * SumFun(a) - Scale * quad)

\* C3: with the linear kernel, _loss and _vectorized_loss return the same
\* value for the same alphas, X and y in {-1,+1}^n, and that value is the
\* negated dual objective.
C3_LossesAgree ==
    (BothLossesCalled /\ kernel.name = "linear") =>
        /\ lossRet.val = vlossRet.val
        /\ lossRet.val = NegatedDualObjective

\* C3's case: both losses were called with the linear kernel on two examples
\* of different labels and different features, with alphas of both signs.
C3_Witness ==
    /\ BothLossesCalled /\ kernel.name = "linear"
    /\ Len(lossArgs.X) = 2
    /\ lossArgs.y[1] # lossArgs.y[2]
    /\ lossArgs.X[1] # lossArgs.X[2]
    /\ lossArgs.alphas[1] < 0 /\ lossArgs.alphas[2] > 0
    /\ lossRet.val # 0

\* lr * g, entry by entry.
Scaled(lr, g) == [e \in 1..Len(g) |-> lr * g[e]]

PlainMomentum ==
    /\ optKind = "momentum"
    /\ hyper.mu = 0 /\ hyper.reg = 0 /\ hyper.clip_thresh = Inf

\* C4: with mu = 0, reg = 0 and clip_thresh = inf, every layer_update call
\* of a MomentumOptimizer returns weight_update = lr * weight_gradient and
\* bias_update = lr * bias_gradient, whatever the MLP's weights are and
\* however many calls came before (with the same gradient or another).
C4_PlainMomentumIsScaledGradient ==
    (PlainMomentum /\ calls >= 1) =>
        /\ retW = Scaled(hyper.lr, call.dJdW)
        /\ retB = Scaled(hyper.lr, call.dJdb)

\* C4's case: the second of two calls on one layer with the same gradient,
\* no entry of it zero.
C4_Witness ==
    /\ PlainMomentum /\ calls >= 2
    /\ Len(hist[call.i]) = 2
    /\ hist[call.i][2].dJdW = call.dJdW /\ hist[call.i][2].dJdb = call.dJdb
    /\ \A e \in 1..Len(call.dJdW) : call.dJdW[e] # 0

\* |u| < |v| for two AdaGrad update entries num / sqrt(rad / EpsDen) with
\* positive rad.
SmallerMagnitude(u, v) == u.num * u.num * v.rad < v.num * v.num * u.rad

\* The cache of a layer never decreases in a call, and increases where the
\* gradient is not zero.
CacheGrows(before, after, g) ==
    \A e \in 1..Len(g) : /\ after[e] >= before[e]
                         /\ g[e] # 0 => after[e] > before[e]

\* The update entries of a call are smaller in magnitude than those of the
\* call before on the same layer, where the gradient entry is the same and
\* not zero.
UpdateShrinks(gBefore, uBefore, g, u) ==
    \A e \in 1..Len(g) : (g[e] # 0 /\ gBefore[e] = g[e]) => SmallerMagnitude(u[e], uBefore[e])

\* C5: for an AdaGradOptimizer with lr > 0 and epsilon > 0, every call makes
\* every cache element of its layer whose gradient element is not zero
\* strictly larger and none smaller, and when the call before on that layer
\* had the same gradient, the returned update is strictly smaller in
\* magnitude than the one returned then.
C5_AdaGradCacheGrowsUpdateShrinks ==
    (optKind = "adagrad" /\ calls >= 1 /\ hyper.lr > 0 /\ hyper.epsilon > 0) =>
        LET i == call.i IN
        /\ CacheGrows(pre.cW_[i], cW_[i], call.dJdW)
        /\ CacheGrows(pre.cb_[i], cb_[i], call.dJdb)
        /\ \A j \in Layers \ {i} : cW_[j] = pre.cW_[j] /\ cb_[j] = pre.cb_[j]
        /\ Len(hist[i]) = 2 =>
             /\ UpdateShrinks(hist[i][2].dJdW, hist[i][2].retW, call.dJdW, retW)
             /\ UpdateShrinks(hist[i][2].dJdb, hist[i][2].retB, call.dJdb, retB)

\* C5's case: the second of two calls on one layer with the same gradient,
\* one entry of it zero and one not.
C5_Witness ==
    /\ optKind = "adagrad" /\ calls >= 2 /\ hyper.lr > 0 /\ hyper.epsilon > 0
    /\ Len(hist[call.i]) = 2
    /\ hist[call.i][2].dJdW = call.dJdW /\ hist[call.i][2].dJdb = call.dJdb
    /\ \E e \in 1..Len(call.dJdW) : call.dJdW[e] # 0
    /\ \E e \in 1..Len(call.dJdW) : call.dJdW[e] = 0

\* C8: the running maximum a call returns is the larger of the one passed in
\* and the largest absolute value of an entry of the (clipped) weight
\* gradient, so that threaded from 0 it is the largest absolute value of a
\* weight gradient entry seen so far.
C8_RunningMaxIsLargestMagnitude ==
    calls >= 1 =>
        /\ grad_max = Max2(call.grad_max, MaxAbs(dJdW))
        /\ grad_max = seenMax

\* Everything but the velocity or cache of the layer of the last call is as
\* it was before the call.
RestUnchanged ==
    /\ hyper = pre.hyper
    /\ mlp = pre.mlp
    /\ IF optKind = "momentum"
       THEN /\ cW_ = pre.cW_ /\ cb_ = pre.cb_
            /\ \A j \in Layers \ {call.i} : vW_[j] = pre.vW_[j] /\ vb_[j] = pre.vb_[j]
       ELSE /\ vW_ = pre.vW_ /\ vb_ = pre.vb_
            /\ \A j \in Layers \ {call.i} : cW_[j] = pre.cW_[j] /\ cb_[j] = pre.cb_[j]

\* C9: a layer_update call changes only the velocity (Momentum) or cache
\* (AdaGrad) of its layer: the other layers' arrays, the hyperparameters, the
\* MLP's weights and biases and the caller's gradient arrays are unchanged.
C9_OnlyOwnLayerStateChanges ==
    calls >= 1 =>
        /\ RestUnchanged
        /\ dJdW = call.dJdW
        /\ dJdb = call.dJdb

\* x limited to [-t, t], for t >= 0 or t infinite.
Clamped(x, t) ==
    IF t.inf THEN x
    ELSE IF x > t.val THEN t.val ELSE IF x < -t.val THEN -t.val ELSE x

\* C9, amended: as C9, except that a MomentumOptimizer with clip_thresh >= 0
\* leaves in the caller's gradient arrays each entry limited to
\* [-clip_thresh, clip_thresh]; AdaGrad leaves them unchanged.
C9_OnlyOwnLayerStateAndClippedGradientsChange ==
    calls >= 1 =>
        /\ RestUnchanged
        /\ LET t == IF optKind = "momentum" THEN hyper.clip_thresh ELSE Inf
           IN /\ dJdW = [e \in 1..Len(call.dJdW) |-> Clamped(call.dJdW[e], t)]
              /\ dJdb = [e \in 1..Len(call.dJdb) |-> Clamped(call.dJdb[e], t)]

\* C9's case: a Momentum call on layer 2, after one on layer 1 that left a
\* velocity there, with a gradient entry beyond clip_thresh.
C9_Witness ==
    /\ optKind = "momentum" /\ calls >= 2 /\ call.i = 2
    /\ \E e \in 1..Len(vW_[1]) : vW_[1][e] # 0
    /\ dJdW # call.dJdW

\* The first training example whose optimized alpha is above 0.001.
FirstSupportIndex == CHOOSE i \in SupportIndices : \A j \in SupportIndices : i <= j

\* The label predict gives for a remapped label: 1 for +1, 0 for -1.
LabelOf(yk) == IF yk = 1 THEN 1 ELSE 0

\* C11: after every fit on labels in {0,1} that returns, for every kernel and
\* every alphas the minimizer returned, there is a first support vector, it
\* is the first training example with alpha above 0.001, and the discriminant
\* at its features equals its remapped label, which is -1 or +1; and a
\* predict call that returns on stored support vectors gives, for every row
\* equal to the first support vector's features, 1 when its training label was
\* 1 and 0 when it was 0.  (A fit that stores support vectors and then raises
\* stores none, so stored support vectors are those of a fit that returned.)
C11_DiscriminantAtFirstSupportVectorIsItsLabel ==
    /\ FitReturned =>
          /\ Len(sup_X_) >= 1
          /\ sup_X_[1] = arg.X[FirstSupportIndex]
          /\ sup_y_[1] = (IF arg.y[FirstSupportIndex] = 0 THEN -1 ELSE 1)
          /\ sup_y_[1] \in {-1, 1}
          /\ Discriminant(sup_X_[1]) = sup_y_[1] * Unit
    /\ (PredictReturned /\ Len(sup_X_) >= 1) =>
          /\ Discriminant(sup_X_[1]) = sup_y_[1] * Unit
          /\ \A r \in 1..Len(arg.X) :
                arg.X[r] = sup_X_[1] => ret[r] = LabelOf(sup_y_[1])

\* C11's case: with a gaussian kernel and two support vectors of different
\* features and opposite labels, so that the kernel sum and the offset are
\* both nonzero, predict on the first support vector's features returned 0,
\* the training label of that example.
C11_Witness ==
    /\ PredictReturned
    /\ kernel.name = "gaussian"
    /\ Len(sup_X_) = 2 /\ sup_X_[1] # sup_X_[2]
    /\ sup_y_[1] = -1 /\ sup_y_[2] = 1
    /\ offset_ # sup_y_[1] * Unit /\ offset_ # 0
    /\ Len(arg.X) >= 1 /\ arg.X[1] = sup_X_[1]
    /\ ret[1] = 0

====
